---- MODULE Spec2Model ----
(***************************************************************************)
(* A model of solo/methods/base.py: BaseMethod and BaseMomentumMethod.     *)
(*                                                                         *)
(* Floating-point quantities are fixed-point integers: learning rates and  *)
(* taus in thousandths (0.1 is 100, 0.99 is 990).  Python's None is the    *)
(* record None for objects and 0 for accumulate_grad_batches, which the    *)
(* code only ever tests for truthiness.                                    *)
(***************************************************************************)
EXTENDS Integers, Sequences, FiniteSets, TLC

VARIABLES
    pc,        \* where the method object is: "new", "constructed", "failed" (the
               \* constructor raised), "stepped" (training_step ran), "validated"
               \* (validation_epoch_end ran), "raised" (a validation_step raised)
    args,      \* the arguments the constructor was called with
    self,      \* the attributes of the method object
    err,       \* the exception the last operation raised ("" when none)
    calls,     \* how often the collaborators were called: factory, forward, log, knn
    co_ret,    \* what the last configure_optimizers returned
    co_calls,  \* number of configure_optimizers calls so far
    get_lr,    \* the last scheduler.get_lr() call: the scheduler's own rates, and
               \* the rates the call returned
    trainer,   \* the trainer: global_step, accumulate_grad_batches, epochs, batches, position
    hook,      \* what on_train_batch_end did so far: firings, update and update_tau calls
    batch,     \* the batch the last training_step was given
    net,       \* what the forward pass of this step yields for each image
    mnet,      \* the same for the momentum backbone and classifier
    out,       \* what the last training_step returned
    knn_buf,   \* the (feature, target) pairs fed to the k-NN classifier
    val_in,    \* the validation batches of this epoch, as the trainer gave them
    val_outs,  \* the outputs of validation_step the trainer collected this epoch
    logged,    \* the metrics handed to log_dict
    tree,      \* the module tree weights_init was called on
    stack,     \* the call stack of weights_init and reset_parameters
    marks      \* per module: how often it was initialized, reset and entered

objvars == <<pc, args, self, err, calls>>
optvars == <<co_ret, co_calls, get_lr>>
trainvars == <<trainer, hook>>
stepvars == <<batch, net, mnet, out, knn_buf>>
valvars == <<val_in, val_outs, logged>>
initvars == <<tree, stack, marks>>
vars == <<objvars, optvars, trainvars, stepvars, valvars, initvars>>

\* ------------------------------------------------------------------ bounds

MaxAccum == 4
MaxConfigure == 2
MaxBatches == 3
MaxEpochs == 2
MaxResume == 1
MaxCrops == 4
NumImages == 2
MaxValBatches == 3
MaxModules == 3

\* ------------------------------------------------------------- python values

None == [class |-> "NoneType"]

HasAttr(obj, name) == name \in DOMAIN obj

\* ------------------------------------------------------- backbone registry

ResNetNames ==
    {"resnet18", "resnet50", "wide_resnet50_2", "wide_resnet50_4", "wide_resnet50_8",
     "resnetlarge1", "resnetlarge2"}

OtherNames ==
    {"vit_tiny", "vit_small", "vit_base", "vit_large",
     "swin_tiny", "swin_small", "swin_base", "swin_large",
     "poolformer_s12", "poolformer_s24", "poolformer_s36", "poolformer_m36",
     "poolformer_m48",
     "convnext_tiny", "convnext_small", "convnext_base", "convnext_large"}

\* the keys of BaseMethod._SUPPORTED_BACKBONES
SUPPORTED_BACKBONES == ResNetNames \cup OtherNames

\* "swin" in name, 'resnetlarge' in name, "resnet" in name, 'large' in name
ContainsSwin(name) == name \in {"swin_tiny", "swin_small", "swin_base", "swin_large"}

ContainsResnetlarge(name) == name \in {"resnetlarge1", "resnetlarge2"}

ContainsResnet(name) == name \in ResNetNames \cup {"resnet101"}

ContainsLarge(name) ==
    name \in {"resnetlarge1", "resnetlarge2", "vit_large", "swin_large", "convnext_large"}

\* The feature count the library factories report (inplanes of a torchvision
\* ResNet, num_features of the transformer families).
LibFeatures(name) ==
    CASE name = "resnet18" -> 512
      [] name \in ResNetNames \ {"resnet18"} -> 2048
      [] name \in {"vit_tiny"} -> 192
      [] name \in {"vit_small"} -> 384
      [] name \in {"poolformer_s12", "poolformer_s24", "poolformer_s36"} -> 512
      [] name \in {"vit_large", "swin_base", "convnext_base"} -> 1024
      [] name \in {"swin_large", "convnext_large"} -> 1536
      [] OTHER -> 768

ResNet(name, avgpool) ==
    [class |-> "ResNet", inplanes |-> LibFeatures(name), fc |-> "Linear",
     conv1 |-> "Conv2d(k7,s2,p3)", maxpool |-> "MaxPool2d", avgpool |-> avgpool]

\* resnetlarge1 has an empty body (pass) and so returns None
resnetlarge1(out_size, kwargs) == None

\* ResnetLarge2 puts a BottleneckExpand(in_size, 512, out_size) before the pooling
resnetlarge2(out_size, kwargs) ==
    [ResNet("resnetlarge2", "Sequential(BottleneckExpand,AdaptiveAvgPool2d)")
        EXCEPT !.class = "ResnetLarge2"]

\* self.base_model(*posargs, **kwargs): the factory registered under name, called
\* with the keyword arguments left after cifar was popped
CallFactory(name, posargs, kwargs) ==
    CASE name = "resnetlarge1" -> resnetlarge1(posargs[1], kwargs)
      [] name = "resnetlarge2" -> resnetlarge2(posargs[1], kwargs)
      [] name \in ResNetNames \ {"resnetlarge1", "resnetlarge2"} ->
            ResNet(name, "AdaptiveAvgPool2d")
      [] OTHER ->
            [class |-> "timm", num_features |-> LibFeatures(name),
             window_size |-> IF "window_size" \in DOMAIN kwargs
                             THEN kwargs.window_size ELSE 7]

\* ---------------------------------------------------------- construction

Linear(in_features, out_features) ==
    [class |-> "Linear", in_features |-> in_features, out_features |-> out_features]

ScaleLr_Always(x, accumulate_grad_batches) == x * accumulate_grad_batches

\* "if self.accumulate_grad_batches: x = x * self.accumulate_grad_batches"
ScaleLr(x, accumulate_grad_batches) ==
    IF accumulate_grad_batches # 0 THEN x * accumulate_grad_batches ELSE x

\* The attribute assignments of BaseMethod.__init__ up to the registry check.
\* Attributes assigned later in __init__ (or by BaseMomentumMethod) are None here.
InitFields(a) ==
    [cls |-> a.cls,
     backbone_args |-> a.backbone_args,
     num_classes |-> a.num_classes,
     max_epochs |-> a.max_epochs,
     optimizer |-> a.optimizer,
     lars |-> a.lars,
     lr |-> ScaleLr(a.lr, a.accumulate_grad_batches),
     weight_decay |-> a.weight_decay,
     classifier_lr |-> ScaleLr(a.classifier_lr, a.accumulate_grad_batches),
     accumulate_grad_batches |-> a.accumulate_grad_batches,
     scheduler |-> a.scheduler,
     lr_decay_steps |-> a.lr_decay_steps,
     min_lr |-> ScaleLr(a.min_lr, a.accumulate_grad_batches),
     warmup_start_lr |-> ScaleLr(a.warmup_start_lr, a.accumulate_grad_batches),
     warmup_epochs |-> a.warmup_epochs,
     num_large_crops |-> a.num_large_crops,
     num_small_crops |-> a.num_small_crops,
     knn_eval |-> a.knn_eval,
     out_size |-> a.out_size,
     num_crops |-> a.num_large_crops + a.num_small_crops,
     multicrop |-> a.num_small_crops # 0,
     extra_head |-> a.extra_head,
     backbone_name |-> None,
     backbone |-> None,
     features_dim |-> None,
     classifier |-> None,
     knn |-> None,
     momentum_backbone |-> None,
     momentum_classifier |-> None,
     momentum_updater |-> None,
     last_step |-> None]

\* What __init__ does with the module the factory returned: read its feature
\* count, replace fc, patch the stem for cifar: [module, features_dim, err].
AdaptBackbone(module, name, cifar, out_size) ==
    IF ContainsResnet(name)
    THEN IF ~HasAttr(module, "inplanes")
         THEN [module |-> module, features_dim |-> None, err |-> "AttributeError"]
         ELSE [module |-> IF cifar
                          THEN [module EXCEPT !.fc = "Identity",
                                              !.conv1 = "Conv2d(k3,s1,p2)",
                                              !.maxpool = "Identity"]
                          ELSE [module EXCEPT !.fc = "Identity"],
               features_dim |-> IF ContainsLarge(name)
                                THEN out_size ELSE module.inplanes,
               err |-> ""]
    ELSE IF ~HasAttr(module, "num_features")
         THEN [module |-> module, features_dim |-> None, err |-> "AttributeError"]
         ELSE [module |-> module, features_dim |-> module.num_features, err |-> ""]

\* kwargs = self.backbone_args.copy() with cifar popped and, for swin on cifar,
\* window_size set
BackboneKwargs(name, cifar) ==
    IF ContainsSwin(name) /\ cifar THEN [window_size |-> 4] ELSE <<>>

\* The backbone set-up that BaseMethod.__init__ runs for self.backbone and
\* BaseMomentumMethod.__init__ repeats for self.momentum_backbone:
\* [module, features_dim, err].
BuildBackbone(name, backbone_args, out_size) ==
    AdaptBackbone(
        IF ContainsResnetlarge(name)
        THEN CallFactory(name, <<out_size>>, BackboneKwargs(name, backbone_args.cifar))
        ELSE CallFactory(name, <<>>, BackboneKwargs(name, backbone_args.cifar)),
        name, backbone_args.cifar, out_size)

Registered_Always(name) == TRUE

\* "assert backbone in BaseMethod._SUPPORTED_BACKBONES"
Registered(name) == name \in SUPPORTED_BACKBONES

\* BaseMethod.__init__ from the backbone set-up on, s0 holding the attributes
\* assigned before it and b what the set-up gave
FinishBaseInit(s0, a, b) ==
    IF b.err # ""
    THEN [self |-> [s0 EXCEPT !.backbone_name = a.backbone, !.backbone = b.module],
          err |-> b.err, factory_calls |-> 1]
    ELSE [self |-> [s0 EXCEPT
                      !.backbone_name = a.backbone,
                      !.backbone = b.module,
                      !.features_dim = b.features_dim,
                      !.classifier = Linear(b.features_dim, a.num_classes),
                      !.knn = IF a.knn_eval
                              THEN [class |-> "WeightedKNNClassifier"] ELSE None],
          err |-> "", factory_calls |-> 1]

\* BaseMethod.__init__: [self, err, factory_calls]
BaseMethodInit(a) ==
    IF ~Registered(a.backbone)
    THEN [self |-> InitFields(a), err |-> "AssertionError", factory_calls |-> 0]
    ELSE FinishBaseInit(InitFields(a), a,
                        BuildBackbone(a.backbone, a.backbone_args, a.out_size))

\* MomentumUpdater(base_tau, final_tau): cur_tau starts at base_tau
MomentumUpdater(base_tau, final_tau) ==
    [class |-> "MomentumUpdater", base_tau |-> base_tau, final_tau |-> final_tau,
     cur_tau |-> base_tau]

\* BaseMomentumMethod.__init__ after super().__init__() returned s, b being
\* what the set-up of the momentum backbone gave
FinishMomentumInit(s, a, b) ==
    IF b.err # ""
    THEN [self |-> [s EXCEPT !.momentum_backbone = b.module],
          err |-> b.err, factory_calls |-> 2]
    ELSE [self |-> [s EXCEPT
                      !.momentum_backbone = b.module,
                      !.features_dim = b.features_dim,
                      !.momentum_classifier =
                          IF a.momentum_classifier
                          THEN Linear(b.features_dim, s.num_classes) ELSE None,
                      !.momentum_updater =
                          MomentumUpdater(a.base_tau_momentum, a.final_tau_momentum)],
          err |-> "", factory_calls |-> 2]

\* BaseMomentumMethod.__init__ given what super().__init__() did
MomentumInitAfter(r, a) ==
    IF r.err # "" THEN r
    ELSE FinishMomentumInit(r.self, a,
            BuildBackbone(r.self.backbone_name, r.self.backbone_args, r.self.out_size))

\* BaseMomentumMethod.__init__: [self, err, factory_calls]
BaseMomentumMethodInit(a) == MomentumInitAfter(BaseMethodInit(a), a)

\* Calling the class named by a.cls
NewMethod(a) ==
    IF a.cls = "BaseMomentumMethod" THEN BaseMomentumMethodInit(a) ELSE BaseMethodInit(a)

\* ------------------------------------------------------ learnable_params

\* A parameter-group dict: params is the module whose parameters() the dict
\* holds, keys holds which of "lr", "weight_decay", "static_lr" the dict
\* carries; lr and weight_decay mean nothing when their key is absent.
ParamGroup(name, keys, lr, weight_decay) ==
    [name |-> name, params |-> "self." \o name, keys |-> keys, lr |-> lr,
     weight_decay |-> weight_decay]

\* BaseMethod.learnable_params
BaseLearnableParams(s) ==
    <<ParamGroup("backbone", {}, 0, 0),
      ParamGroup("classifier", {"lr", "weight_decay"}, s.classifier_lr, 0)>>

MomentumLearnableParams_Always(s) ==
    BaseLearnableParams(s)
    \o <<ParamGroup("momentum_classifier", {"lr", "weight_decay"}, s.classifier_lr, 0)>>

\* BaseMomentumMethod.learnable_params
MomentumLearnableParams(s) ==
    LET momentum_learnable_parameters ==
            IF s.momentum_classifier # None
            THEN <<ParamGroup("momentum_classifier", {"lr", "weight_decay"},
                              s.classifier_lr, 0)>>
            ELSE <<>>
    IN  BaseLearnableParams(s) \o momentum_learnable_parameters

\* The groups a concrete method appends for its own head: none, a plain group,
\* one marked static_lr, or one marked static_lr that carries a rate of its own.
ExtraLearnableParams(s) ==
    CASE s.extra_head = "plain" -> <<ParamGroup("predictor", {}, 0, 0)>>
      [] s.extra_head = "static" -> <<ParamGroup("predictor", {"static_lr"}, 0, 0)>>
      [] s.extra_head = "static_own_lr" ->
            <<ParamGroup("predictor", {"static_lr", "lr"}, s.classifier_lr, 0)>>
      [] OTHER -> <<>>

\* self.learnable_params as the method's class resolves it
LearnableParams(s) ==
    (IF s.cls = "BaseMomentumMethod"
     THEN MomentumLearnableParams(s) ELSE BaseLearnableParams(s))
    \o ExtraLearnableParams(s)

\* -------------------------------------------------- configure_optimizers

\* [i for i, m in enumerate(self.learnable_params) if m.pop("static_lr", False)]
IdxsNoScheduler(groups) ==
    LET idx == [i \in 1..Len(groups) |-> i - 1]
        Marked(i) == "static_lr" \in groups[i + 1].keys
    IN  SelectSeq(idx, Marked)

\* optimizer(self.learnable_params, lr=..., weight_decay=...): every group gets the
\* defaults for the keys it does not carry and keeps the keys it does
NewOptimizer(class, groups, lr, weight_decay) ==
    [class |-> class,
     param_groups |->
        [i \in 1..Len(groups) |->
            [name |-> groups[i].name,
             params |-> groups[i].params,
             lr |-> IF "lr" \in groups[i].keys THEN groups[i].lr ELSE lr,
             weight_decay |-> IF "weight_decay" \in groups[i].keys
                              THEN groups[i].weight_decay ELSE weight_decay,
             static_lr |-> "static_lr" \in groups[i].keys]]]

LARSWrapper(optimizer) == [class |-> "LARSWrapper", optim |-> optimizer]

\* optimizer.param_groups, which the LARS wrapper hands through to the
\* optimizer it wraps
ParamGroups(optimizer) ==
    IF optimizer.class = "LARSWrapper"
    THEN optimizer.optim.param_groups ELSE optimizer.param_groups

\* The objects built up to here, in the order they were built
Built(optimizer) ==
    IF optimizer.class = "LARSWrapper"
    THEN <<optimizer.optim.class, "LARSWrapper">>
    ELSE <<optimizer.class>>

OptimizerClass_DefaultSGD(name) ==
    CASE name = "sgd" -> "SGD"
      [] name = "adam" -> "Adam"
      [] name = "adamw" -> "AdamW"
      [] OTHER -> "SGD"

\* The class the optimizer name selects; "" where the else branch raises
OptimizerClass(name) ==
    CASE name = "sgd" -> "SGD"
      [] name = "adam" -> "Adam"
      [] name = "adamw" -> "AdamW"
      [] OTHER -> ""

LarsCompatible_Any(name) == TRUE

\* assert self.optimizer == "sgd", "LARS is only compatible with SGD."
LarsCompatible(name) == name = "sgd"

SchedulerClass_DefaultCosine(name) ==
    CASE name = "warmup_cosine" -> "LinearWarmupCosineAnnealingLR"
      [] name = "cosine" -> "CosineAnnealingLR"
      [] name = "step" -> "MultiStepLR"
      [] OTHER -> "CosineAnnealingLR"

\* The class the scheduler name selects once "none" has returned; "" where the
\* else branch raises
SchedulerClass(name) ==
    CASE name = "warmup_cosine" -> "LinearWarmupCosineAnnealingLR"
      [] name = "cosine" -> "CosineAnnealingLR"
      [] name = "step" -> "MultiStepLR"
      [] OTHER -> ""

\* collections.Counter(iterable), which torch's MultiStepLR makes of its
\* milestones: Counter(None) is the empty counter
Counter(iterable) ==
    [class |-> "Counter",
     items |-> IF iterable = None THEN <<>> ELSE iterable.items]

\* The scheduler object for a name configure_optimizers knows
NewScheduler(s, optimizer) ==
    CASE SchedulerClass(s.scheduler) = "LinearWarmupCosineAnnealingLR" ->
            [class |-> "LinearWarmupCosineAnnealingLR", optimizer |-> optimizer,
             warmup_epochs |-> s.warmup_epochs, max_epochs |-> s.max_epochs,
             warmup_start_lr |-> s.warmup_start_lr, eta_min |-> s.min_lr,
             get_lr |-> [class |-> "method"]]
      [] SchedulerClass(s.scheduler) = "CosineAnnealingLR" ->
            [class |-> "CosineAnnealingLR", optimizer |-> optimizer,
             T_max |-> s.max_epochs, eta_min |-> s.min_lr,
             get_lr |-> [class |-> "method"]]
      [] SchedulerClass(s.scheduler) = "MultiStepLR" ->
            [class |-> "MultiStepLR", optimizer |-> optimizer,
             milestones |-> Counter(s.lr_decay_steps),
             get_lr |-> [class |-> "method"]]

\* lrs_to_replace=[self.lr] * len(idxs_no_scheduler)
LrsToReplace(s, optimizer, idxs) == [i \in 1..Len(idxs) |-> s.lr]

\* partial(static_lr, get_lr=scheduler.get_lr, param_group_indexes=..., lrs_to_replace=...)
StaticLrPartial(get_lr_method, idxs, lrs) ==
    [class |-> "partial(static_lr)", get_lr |-> get_lr_method,
     param_group_indexes |-> idxs,
     lrs_to_replace |-> lrs]

\* static_lr, lrs being what get_lr() returned: the pairs of
\* zip(param_group_indexes, lrs_to_replace) are written in order
StaticLr(lrs, param_group_indexes, lrs_to_replace) ==
    LET n == IF Len(param_group_indexes) < Len(lrs_to_replace)
             THEN Len(param_group_indexes) ELSE Len(lrs_to_replace)
        Hits(i) == {j \in 1..n : param_group_indexes[j] = i - 1}
        Last(js) == CHOOSE j \in js : \A k \in js : k <= j
    IN  [i \in 1..Len(lrs) |->
            IF Hits(i) = {} THEN lrs[i] ELSE lrs_to_replace[Last(Hits(i))]]

\* scheduler.get_lr() as configure_optimizers left it, computed being the rates
\* of the scheduler's own get_lr
CallGetLr(scheduler, computed) ==
    IF scheduler.get_lr.class = "partial(static_lr)"
    THEN StaticLr(computed, scheduler.get_lr.param_group_indexes,
                  scheduler.get_lr.lrs_to_replace)
    ELSE computed

ReturnOptimizer_EmptyLists(optimizer) ==
    [kind |-> "lists", optimizers |-> <<optimizer>>, schedulers |-> <<>>]

\* "return optimizer"
ReturnOptimizer(optimizer) == [kind |-> "optimizer", optimizer |-> optimizer]

\* configure_optimizers from the scheduler selection on
SelectScheduler(s, optimizer, idxs_no_scheduler) ==
    IF s.scheduler = "none"
    THEN ReturnOptimizer(optimizer)
    ELSE IF SchedulerClass(s.scheduler) = ""
    THEN [kind |-> "raise", err |-> "ValueError", built |-> Built(optimizer)]
    ELSE [kind |-> "lists",
          optimizers |-> <<optimizer>>,
          schedulers |->
             <<IF idxs_no_scheduler # <<>>
               THEN [NewScheduler(s, optimizer) EXCEPT
                       !.get_lr = StaticLrPartial(
                                     [class |-> "method"], idxs_no_scheduler,
                                     LrsToReplace(s, optimizer, idxs_no_scheduler))]
               ELSE NewScheduler(s, optimizer)>>]

\* configure_optimizers from the optional LARS wrapping on
WrapAndSchedule(s, optimizer, idxs_no_scheduler) ==
    IF s.lars /\ ~LarsCompatible(s.optimizer)
    THEN [kind |-> "raise", err |-> "AssertionError", built |-> Built(optimizer)]
    ELSE SelectScheduler(s, IF s.lars THEN LARSWrapper(optimizer) ELSE optimizer,
                         idxs_no_scheduler)

\* BaseMethod.configure_optimizers: what it returns or raises
ConfigureOptimizersRet(s) ==
    IF OptimizerClass(s.optimizer) = ""
    THEN [kind |-> "raise", err |-> "ValueError", built |-> <<>>]
    ELSE WrapAndSchedule(
            s,
            NewOptimizer(OptimizerClass(s.optimizer),
                         LearnableParams(s), s.lr, s.weight_decay),
            IdxsNoScheduler(LearnableParams(s)))

\* ------------------------------------------------------------ arguments

Unregistered == {"alexnet", "resnet101"}

DefaultArgs ==
    [cls |-> "BaseMethod",
     backbone |-> "resnet18",
     backbone_args |-> [cifar |-> FALSE],
     num_classes |-> 10,
     max_epochs |-> 2,
     optimizer |-> "sgd",
     lars |-> FALSE,
     lr |-> 100,
     weight_decay |-> 1,
     classifier_lr |-> 300,
     accumulate_grad_batches |-> 0,
     scheduler |-> "none",
     lr_decay_steps |-> None,
     min_lr |-> 2,
     warmup_start_lr |-> 3,
     warmup_epochs |-> 1,
     num_large_crops |-> 2,
     num_small_crops |-> 0,
     knn_eval |-> FALSE,
     out_size |-> 4096,
     extra_head |-> "none",
     momentum_classifier |-> FALSE,
     base_tau_momentum |-> 990,
     final_tau_momentum |-> 1000]

\* BaseMethod, and BaseMomentumMethod without and with a momentum classifier
Classes ==
    {[cls |-> "BaseMethod", momentum_classifier |-> FALSE],
     [cls |-> "BaseMomentumMethod", momentum_classifier |-> FALSE],
     [cls |-> "BaseMomentumMethod", momentum_classifier |-> TRUE]}

\* accumulate_grad_batches: None (0 here) or a positive count
Accums == 0..MaxAccum

\* the names the argument parser accepts, and one it does not
OptimizerNames == {"sgd", "adam", "adamw", "rmsprop"}

SchedulerNames == {"reduce", "cosine", "warmup_cosine", "step", "exponential", "none"}

\* Constructor calls that vary what __init__ reads
CtorArgs ==
    {[DefaultArgs EXCEPT !.cls = c.cls, !.momentum_classifier = c.momentum_classifier,
                         !.backbone = b, !.backbone_args = [cifar |-> cf],
                         !.accumulate_grad_batches = n] :
        c \in Classes, b \in SUPPORTED_BACKBONES \cup Unregistered,
        cf \in BOOLEAN, n \in Accums}

\* Constructor calls that vary what configure_optimizers reads
OptimArgs ==
    {[DefaultArgs EXCEPT !.cls = c.cls, !.momentum_classifier = c.momentum_classifier,
                         !.optimizer = o, !.lars = l, !.scheduler = sc,
                         !.lr_decay_steps = d, !.extra_head = h,
                         !.accumulate_grad_batches = n] :
        c \in Classes, o \in OptimizerNames, l \in BOOLEAN, sc \in SchedulerNames,
        d \in {None, [class |-> "list", items |-> <<1, 2>>]},
        h \in {"none", "plain", "static", "static_own_lr"}, n \in Accums}

ArgSpace == CtorArgs \cup OptimArgs

\* ---------------------------------------------------------------- actions

NoCalls == [factory |-> 0, forward |-> 0, log |-> 0, knn |-> 0]

\* The parts of the state an operation sequence does not touch
NoOptim == co_ret = None /\ co_calls = 0 /\ get_lr = None

NoTrain == trainer = None /\ hook = None

NoStep == batch = None /\ net = None /\ mnet = None /\ out = None /\ knn_buf = {}

NoVal == val_in = <<>> /\ val_outs = <<>> /\ logged = None

NoWeightsInit == tree = None /\ stack = <<>> /\ marks = None

Init ==
    /\ pc = "new"
    /\ args = None
    /\ self = None
    /\ err = ""
    /\ calls = NoCalls
    /\ NoOptim /\ NoTrain /\ NoStep /\ NoVal /\ NoWeightsInit

\* The state after cls(**a) returned or raised r
Constructed(a, r) ==
    /\ args' = a
    /\ self' = r.self
    /\ err' = r.err
    /\ pc' = IF r.err = "" THEN "constructed" ELSE "failed"
    /\ calls' = [calls EXCEPT !.factory = r.factory_calls]

\* cls(**args)
Construct ==
    /\ pc = "new"
    /\ \E a \in ArgSpace : Constructed(a, NewMethod(a))
    /\ UNCHANGED <<initvars, optvars, trainvars, stepvars, valvars>>

\* self.configure_optimizers()
ConfigureOptimizers ==
    /\ pc = "constructed"
    /\ co_calls < MaxConfigure
    /\ co_ret' = ConfigureOptimizersRet(self)
    /\ err' = IF co_ret'.kind = "raise" THEN co_ret'.err ELSE ""
    /\ co_calls' = co_calls + 1
    /\ get_lr' = None
    /\ UNCHANGED <<initvars, pc, args, self, calls, trainvars, stepvars, valvars>>

\* The rates a scheduler's own get_lr can compute for a group
ComputedLrs == {7, 50}

\* scheduler.get_lr() on the scheduler the last configure_optimizers returned
SchedulerGetLr ==
    /\ co_calls > 0
    /\ co_ret.kind = "lists"
    /\ \E computed \in [1..Len(ParamGroups(co_ret.optimizers[1])) -> ComputedLrs] :
          get_lr' = [computed |-> computed,
                     lrs |-> CallGetLr(co_ret.schedulers[1], computed)]
    /\ UNCHANGED <<initvars, co_ret, co_calls, objvars, trainvars, stepvars, valvars>>

Next == Construct \/ ConfigureOptimizers \/ SchedulerGetLr

Spec == Init /\ [][Next]_vars

\* ------------------------------------------------------ momentum updater

\* cos(pi * k / n) in thousandths for 0 <= 2k <= n, by Bhaskara's rational
\* approximation (1 - 4t^2) / (1 + t^2) of cos(pi t): exact at t = 0, 1/3, 1/2
\* and within 0.002 of the cosine between them
CosFirstQuarter(k, n) == (1000 * (n * n - 4 * k * k)) \div (n * n + k * k)

\* cos(pi * k / n) in thousandths for 0 <= k <= n: cos(pi - x) = -cos(x)
CosHalfTurn(k, n) ==
    IF 2 * k <= n THEN CosFirstQuarter(k, n) ELSE 0 - CosFirstQuarter(n - k, n)

\* math.cos(math.pi * k / n) in thousandths for k >= 0: cos(2 pi - x) = cos(x)
Cos(k, n) ==
    IF (k % (2 * n)) <= n THEN CosHalfTurn(k % (2 * n), n)
    ELSE CosHalfTurn((2 * n) - (k % (2 * n)), n)

UpdateTau_Swapped(mu, cur_step, max_steps) ==
    mu.base_tau - ((mu.base_tau - mu.final_tau) * (Cos(cur_step, max_steps) + 1000))
                    \div 2000

\* MomentumUpdater.update_tau: the new cur_tau,
\* final_tau - (final_tau - base_tau) * (cos(pi * cur_step / max_steps) + 1) / 2
UpdateTau(mu, cur_step, max_steps) ==
    mu.final_tau - ((mu.final_tau - mu.base_tau) * (Cos(cur_step, max_steps) + 1000))
                    \div 2000

\* ------------------------------------------------------- training loop

\* BaseMomentumMethod.momentum_pairs, which a concrete method with a momentum
\* head of its own extends
MomentumPairs(s) ==
    <<<<"backbone", "momentum_backbone">>>>
    \o (IF s.extra_head # "none" THEN <<<<"head", "momentum_head">>>> ELSE <<>>)

StepAdvanced_OrEqual(global_step, last_step) == global_step >= last_step

\* "if self.trainer.global_step > self.last_step"
StepAdvanced(global_step, last_step) == global_step > last_step

CurStep_Unscaled(global_step, accumulate_grad_batches) == global_step

\* cur_step = self.trainer.global_step, times accumulate_grad_batches if that is set
CurStep(global_step, accumulate_grad_batches) ==
    IF accumulate_grad_batches # 0
    THEN global_step * accumulate_grad_batches ELSE global_step

\* len(self.trainer.train_dataloader) * self.trainer.max_epochs
MaxSteps(t) == t.num_batches * t.max_epochs

\* The trainer makes an optimizer step with the batch that completes an
\* accumulation window and with the last batch of an epoch
ShouldStep(t) ==
    LET batch_idx == t.batches_done % t.num_batches
        window == IF t.accumulate_grad_batches # 0 THEN t.accumulate_grad_batches ELSE 1
    IN  (batch_idx + 1) % window = 0 \/ batch_idx + 1 = t.num_batches

EmaTau_AfterUpdateTau(mu, cur_step, max_steps) == UpdateTau(mu, cur_step, max_steps)

\* The tau momentum_updater.update(*mp) averages every pair with, and the one
\* logged as "tau": cur_tau as it is before update_tau runs
EmaTau(mu, cur_step, max_steps) == mu.cur_tau

\* The trainer before fit: g0 is the global step it starts from (0 in a fresh
\* run, more when resumed from a checkpoint)
NewTrainer(g0, accumulate_grad_batches, num_batches, max_epochs) ==
    [stage |-> "start", global_step |-> g0, resumed_at |-> g0,
     accumulate_grad_batches |-> accumulate_grad_batches,
     num_batches |-> num_batches, max_epochs |-> max_epochs, batches_done |-> 0]

NoHook ==
    [calls |-> 0, firings |-> 0, fired |-> FALSE, stepped |-> FALSE,
     updates |-> 0, ema_taus |-> <<>>, logged_tau |-> None,
     tau_calls |-> 0, cur_step |-> None, max_steps |-> None]

\* Momentum methods the training loop runs
TrainArgs ==
    {[DefaultArgs EXCEPT !.cls = "BaseMomentumMethod",
                         !.accumulate_grad_batches = n, !.extra_head = h,
                         !.base_tau_momentum = tau[1], !.final_tau_momentum = tau[2]] :
        n \in Accums, h \in {"none", "plain"},
        tau \in {<<990, 1000>>, <<996, 996>>, <<0, 1000>>}}

ReadyToTrain(a, r, t) ==
    /\ args = a
    /\ self = r.self
    /\ err = r.err
    /\ pc = "constructed"
    /\ calls = [NoCalls EXCEPT !.factory = r.factory_calls]
    /\ trainer = t
    /\ hook = NoHook

InitTrain ==
    /\ \E a \in TrainArgs, g0 \in 0..MaxResume, b \in 1..MaxBatches, e \in 1..MaxEpochs :
          ReadyToTrain(a, NewMethod(a),
                       NewTrainer(g0, a.accumulate_grad_batches, b, e))
    /\ NoOptim /\ NoStep /\ NoVal /\ NoWeightsInit

\* BaseMomentumMethod.on_train_start
OnTrainStart ==
    /\ pc = "constructed"
    /\ trainer.stage = "start"
    /\ self' = [self EXCEPT !.last_step = 0]
    /\ trainer' = [trainer EXCEPT !.stage = "batch"]
    /\ UNCHANGED <<initvars, pc, args, err, calls, hook, optvars, stepvars, valvars>>

\* The trainer runs one batch: training_step, backward and, when ShouldStep,
\* the optimizer step that advances global_step
TrainBatch ==
    /\ trainer.stage = "batch"
    /\ trainer.batches_done < MaxSteps(trainer)
    /\ trainer' = [trainer EXCEPT
                     !.stage = "batch_end",
                     !.batches_done = @ + 1,
                     !.global_step = IF ShouldStep(trainer) THEN @ + 1 ELSE @]
    /\ hook' = [hook EXCEPT !.stepped = ShouldStep(trainer)]
    /\ UNCHANGED <<initvars, objvars, optvars, stepvars, valvars>>

\* on_train_batch_end when the step counter advanced
HookFires ==
    /\ self' = [self EXCEPT
                  !.momentum_updater.cur_tau =
                      UpdateTau(self.momentum_updater,
                                CurStep(trainer.global_step, trainer.accumulate_grad_batches),
                                MaxSteps(trainer)),
                  !.last_step = trainer.global_step]
    /\ hook' = [hook EXCEPT
                  !.calls = @ + 1,
                  !.firings = @ + 1,
                  !.fired = TRUE,
                  !.updates = @ + Len(MomentumPairs(self)),
                  !.ema_taus = [i \in 1..Len(MomentumPairs(self)) |->
                                    EmaTau(self.momentum_updater,
                                           CurStep(trainer.global_step,
                                                   trainer.accumulate_grad_batches),
                                           MaxSteps(trainer))],
                  !.logged_tau = EmaTau(self.momentum_updater,
                                        CurStep(trainer.global_step,
                                                trainer.accumulate_grad_batches),
                                        MaxSteps(trainer)),
                  !.tau_calls = @ + 1,
                  !.cur_step = CurStep(trainer.global_step,
                                       trainer.accumulate_grad_batches),
                  !.max_steps = MaxSteps(trainer)]

\* on_train_batch_end when it did not
HookSkips ==
    /\ self' = [self EXCEPT !.last_step = trainer.global_step]
    /\ hook' = [hook EXCEPT !.calls = @ + 1, !.fired = FALSE]

\* BaseMomentumMethod.on_train_batch_end
OnTrainBatchEnd ==
    /\ trainer.stage = "batch_end"
    /\ IF StepAdvanced(trainer.global_step, self.last_step) THEN HookFires ELSE HookSkips
    /\ trainer' = [trainer EXCEPT !.stage = "batch"]
    /\ UNCHANGED <<initvars, pc, args, err, calls, optvars, stepvars, valvars>>

NextTrain == OnTrainStart \/ TrainBatch \/ OnTrainBatchEnd

SpecTrain == InitTrain /\ [][NextTrain]_vars

\* -------------------------------------------------- update_tau on its own

TauArgs ==
    {[DefaultArgs EXCEPT !.cls = "BaseMomentumMethod",
                         !.base_tau_momentum = b, !.final_tau_momentum = f] :
        b \in {0, 500, 990, 996, 1000}, f \in {0, 500, 990, 996, 1000}}

InitTau ==
    /\ \E a \in TauArgs, b \in 1..MaxBatches, e \in 1..MaxEpochs :
          ReadyToTrain(a, NewMethod(a), NewTrainer(0, 0, b, e))
    /\ NoOptim /\ NoStep /\ NoVal /\ NoWeightsInit

\* self.momentum_updater.update_tau(cur_step, max_steps) for any step of the
\* schedule
CallUpdateTau ==
    /\ pc = "constructed"
    /\ \E cur_step \in 0..MaxSteps(trainer) :
        /\ self' = [self EXCEPT !.momentum_updater.cur_tau =
                       UpdateTau(self.momentum_updater, cur_step, MaxSteps(trainer))]
        /\ hook' = [hook EXCEPT !.tau_calls = 1, !.cur_step = cur_step,
                                !.max_steps = MaxSteps(trainer)]
    /\ UNCHANGED <<initvars, pc, args, err, calls, trainer, optvars, stepvars, valvars>>

NextTau == CallUpdateTau

SpecTau == InitTau /\ [][NextTau]_vars

\* --------------------------------------------------------- forward passes

Images == 1..NumImages

\* What cross_entropy and accuracy_at_k can come to for the logits of one image
\* batch: the loss, and acc@1 and acc@5 in percent
Responses ==
    {[loss |-> 1, acc1 |-> 100, acc5 |-> 100],
     [loss |-> 2, acc1 |-> 0, acc5 |-> 100],
     [loss |-> 5, acc1 |-> 0, acc5 |-> 0]}

\* a / b in exact arithmetic
Div(a, b) == [num |-> a, den |-> b]

RECURSIVE PySum(_)
\* sum(xs)
PySum(xs) == IF xs = <<>> THEN 0 ELSE Head(xs) + PySum(Tail(xs))

\* [out[k] for out in outs]
Column(outs, k) == [i \in 1..Len(outs) |-> outs[i][k]]

\* self.backbone(x)
Backbone(x) == [class |-> "feats", of |-> x]

\* BaseMethod.base_forward
BaseForward(x) ==
    [logits |-> [class |-> "logits", of |-> Backbone(x)], feats |-> Backbone(x)]

\* BaseMethod._base_shared_step, nt giving the loss and accuracies the logits
\* of each image come to against the targets
BaseSharedStep(nt, x, targets) ==
    [logits |-> BaseForward(x).logits, feats |-> BaseForward(x).feats,
     loss |-> nt[x].loss, acc1 |-> nt[x].acc1, acc5 |-> nt[x].acc5]

\* ----------------------------------------------------------- training_step

\* X = [X] if isinstance(X, torch.Tensor) else X
CropList(X) == IF X.class = "Tensor" THEN <<X.img>> ELSE X.items

CropCountOk_AtLeastLarge(crops, s) == Len(crops) >= s.num_large_crops

\* assert len(X) == self.num_crops
CropCountOk(crops, s) == Len(crops) = s.num_crops

LargeCrops_All(crops, s) == crops

\* X[: self.num_large_crops]
LargeCrops(crops, s) ==
    SubSeq(crops, 1, IF Len(crops) < s.num_large_crops
                     THEN Len(crops) ELSE s.num_large_crops)

SmallCrops_All(crops, s) == crops

\* X[self.num_large_crops :]
SmallCrops(crops, s) == SubSeq(crops, s.num_large_crops + 1, Len(crops))

\* [self._base_shared_step(x, targets) for x in X[: self.num_large_crops]]
LargeOuts(s, nt, crops, targets) ==
    [i \in 1..Len(LargeCrops(crops, s)) |->
        BaseSharedStep(nt, LargeCrops(crops, s)[i], targets)]

\* [self.backbone(x) for x in X[self.num_large_crops :]]
SmallFeats(s, crops) ==
    [i \in 1..Len(SmallCrops(crops, s)) |-> Backbone(SmallCrops(crops, s)[i])]

\* The dict training_step returns, from the per-crop outputs
StepOuts(s, outs, small_feats) ==
    [logits |-> Column(outs, "logits"),
     feats |-> Column(outs, "feats") \o (IF s.multicrop THEN small_feats ELSE <<>>),
     loss |-> Div(PySum(Column(outs, "loss")), s.num_large_crops),
     acc1 |-> Div(PySum(Column(outs, "acc1")), s.num_large_crops),
     acc5 |-> Div(PySum(Column(outs, "acc5")), s.num_large_crops)]

\* The rows self.knn is fed: the features of the large crops, repeated targets,
\* both masked by target != -1
KnnTrainRows(s, feats, targets) ==
    {[feats |-> feats[i], row |-> j, target |-> targets[j]] :
        i \in 1..s.num_large_crops,
        j \in {k \in 1..Len(targets) : targets[k] # -1}}

\* accuracy_at_k(logits, targets, top_k) of solo.utils.metrics takes
\* logits.topk(max(top_k), 1), which torch refuses with a RuntimeError when
\* logits has fewer columns
AccuracyAtKRaises(num_logits, top_k) == top_k[2] > num_logits

\* top_k=(1, top_k_max) with top_k_max = min(5, logits.size(1))
BaseTopK(classifier) ==
    <<1, IF classifier.out_features < 5 THEN classifier.out_features ELSE 5>>

\* top_k=(1, 5)
MomentumTopK(classifier) == <<1, 5>>

\* What the collaborators were called with once BaseMethod.training_step ran
BaseStepCalls(c, s, crops) ==
    [c EXCEPT
       !.forward = @ + Len(LargeCrops(crops, s))
                     + (IF s.multicrop THEN Len(SmallCrops(crops, s)) ELSE 0),
       !.log = @ + 1,
       !.knn = @ + (IF s.knn_eval THEN 1 ELSE 0)]

\* The metrics BaseMethod.training_step hands to log_dict
BaseStepLogged(outs) ==
    [train_class_loss |-> outs.loss, train_acc1 |-> outs.acc1,
     train_acc5 |-> outs.acc5]

\* The k-NN accumulator once BaseMethod.training_step ran
BaseStepKnn(buf, s, outs, targets) ==
    IF s.knn_eval THEN buf \cup KnnTrainRows(s, outs.feats, targets) ELSE buf

\* The part of BaseMethod.training_step after the assertion held
StepRuns(s, crops, targets, outs) ==
    /\ err' = ""
    /\ out' = outs
    /\ logged' = BaseStepLogged(outs)
    /\ calls' = BaseStepCalls(calls, s, crops)
    /\ knn_buf' = BaseStepKnn(knn_buf, s, outs, targets)

\* BaseMethod.training_step raising at the assertion
StepRaises ==
    /\ err' = "AssertionError"
    /\ UNCHANGED <<out, logged, calls, knn_buf>>

\* _base_shared_step raising in accuracy_at_k on the first large crop
SharedStepRaises ==
    /\ err' = "RuntimeError"
    /\ calls' = [calls EXCEPT !.forward = @ + 1]
    /\ UNCHANGED <<out, logged, knn_buf>>

\* The state after BaseMethod.training_step(b, batch_idx) with forward passes nt
TrainingStepOn(b, nt) ==
    /\ batch' = b
    /\ net' = nt
    /\ IF ~CropCountOk(CropList(b.X), self)
       THEN StepRaises
       ELSE IF AccuracyAtKRaises(self.classifier.out_features, BaseTopK(self.classifier))
       THEN SharedStepRaises
       ELSE StepRuns(self, CropList(b.X), b.targets,
                     StepOuts(self, LargeOuts(self, nt, CropList(b.X), b.targets),
                              SmallFeats(self, CropList(b.X))))

\* ---------------------------------- BaseMomentumMethod.training_step

\* What cross_entropy and accuracy_at_k can come to for the momentum
\* classifier's logits of one image batch
MomentumResponses ==
    {[loss |-> 3, acc1 |-> 100, acc5 |-> 100],
     [loss |-> 4, acc1 |-> 0, acc5 |-> 100]}

\* self.momentum_backbone(x)
MomentumBackbone(x) == [class |-> "momentum_feats", of |-> x]

\* BaseMomentumMethod._shared_step_momentum where accuracy_at_k does not raise
SharedStepMomentum(s, mt, x, targets) ==
    IF s.momentum_classifier # None
    THEN [feats |-> MomentumBackbone(x),
          logits |-> [class |-> "momentum_logits", of |-> MomentumBackbone(x)],
          loss |-> mt[x].loss, acc1 |-> mt[x].acc1, acc5 |-> mt[x].acc5]
    ELSE [feats |-> MomentumBackbone(x)]

\* [self._shared_step_momentum(x, targets) for x in X[: self.num_large_crops]]
MomentumOuts(s, mt, crops, targets) ==
    [i \in 1..Len(LargeCrops(crops, s)) |->
        SharedStepMomentum(s, mt, LargeCrops(crops, s)[i], targets)]

\* a / b + c / d in exact arithmetic
Add(x, y) == [num |-> x.num * y.den + y.num * x.den, den |-> x.den * y.den]

AddMomentumLoss_Dropped(loss, momentum_loss) == loss

\* outs["loss"] += momentum_outs["momentum_loss"]
AddMomentumLoss(loss, momentum_loss) == Add(loss, momentum_loss)

\* {**outs, **momentum_outs}
MomentumStepOuts(s, outs, mouts) ==
    IF s.momentum_classifier # None
    THEN [logits |-> outs.logits, feats |-> outs.feats,
          loss |-> AddMomentumLoss(outs.loss,
                                   Div(PySum(Column(mouts, "loss")), s.num_large_crops)),
          acc1 |-> outs.acc1, acc5 |-> outs.acc5,
          momentum_feats |-> Column(mouts, "feats"),
          momentum_logits |-> Column(mouts, "logits"),
          momentum_loss |-> Div(PySum(Column(mouts, "loss")), s.num_large_crops),
          momentum_acc1 |-> Div(PySum(Column(mouts, "acc1")), s.num_large_crops),
          momentum_acc5 |-> Div(PySum(Column(mouts, "acc5")), s.num_large_crops)]
    ELSE [logits |-> outs.logits, feats |-> outs.feats, loss |-> outs.loss,
          acc1 |-> outs.acc1, acc5 |-> outs.acc5,
          momentum_feats |-> Column(mouts, "feats")]

\* The metrics of both log_dict calls of BaseMomentumMethod.training_step
MomentumStepLogged(s, outs, mouts) ==
    IF s.momentum_classifier # None
    THEN [train_class_loss |-> outs.loss, train_acc1 |-> outs.acc1,
          train_acc5 |-> outs.acc5,
          train_momentum_class_loss |->
             Div(PySum(Column(mouts, "loss")), s.num_large_crops),
          train_momentum_acc1 |-> Div(PySum(Column(mouts, "acc1")), s.num_large_crops),
          train_momentum_acc5 |-> Div(PySum(Column(mouts, "acc5")), s.num_large_crops)]
    ELSE BaseStepLogged(outs)

\* BaseMomentumMethod.training_step running to its return
MomentumStepRuns(s, crops, targets, outs, mouts) ==
    /\ err' = ""
    /\ out' = MomentumStepOuts(s, outs, mouts)
    /\ logged' = MomentumStepLogged(s, outs, mouts)
    /\ calls' = [BaseStepCalls(calls, s, crops) EXCEPT
                   !.forward = @ + Len(mouts),
                   !.log = @ + (IF s.momentum_classifier # None THEN 1 ELSE 0)]
    /\ knn_buf' = BaseStepKnn(knn_buf, s, outs, targets)

\* _shared_step_momentum raising in accuracy_at_k on the first large crop,
\* after super().training_step returned
MomentumStepRaises(s, crops, targets, outs) ==
    /\ err' = "RuntimeError"
    /\ out' = out
    /\ logged' = BaseStepLogged(outs)
    /\ calls' = [BaseStepCalls(calls, s, crops) EXCEPT !.forward = @ + 1]
    /\ knn_buf' = BaseStepKnn(knn_buf, s, outs, targets)

\* BaseMomentumMethod.training_step once super().training_step returned outs
MomentumStepAfter(s, crops, targets, outs, mt) ==
    IF s.momentum_classifier # None
       /\ AccuracyAtKRaises(s.momentum_classifier.out_features,
                            MomentumTopK(s.momentum_classifier))
    THEN MomentumStepRaises(s, crops, targets, outs)
    ELSE MomentumStepRuns(s, crops, targets, outs,
                          MomentumOuts(s, mt, crops, targets))

\* The state after BaseMomentumMethod.training_step(b, batch_idx) with forward
\* passes nt of the online and mt of the momentum network
MomentumTrainingStepOn(b, nt, mt) ==
    /\ batch' = b
    /\ net' = nt
    /\ mnet' = mt
    /\ IF ~CropCountOk(CropList(b.X), self)
       THEN StepRaises
       ELSE IF AccuracyAtKRaises(self.classifier.out_features, BaseTopK(self.classifier))
       THEN SharedStepRaises
       ELSE MomentumStepAfter(
               self, CropList(b.X), b.targets,
               StepOuts(self, LargeOuts(self, nt, CropList(b.X), b.targets),
                        SmallFeats(self, CropList(b.X))),
               mt)

\* a tensor, or a list of up to MaxCrops tensors
CropInputs ==
    {[class |-> "Tensor", img |-> x] : x \in Images}
    \cup {[class |-> "list", items |-> xs] :
            xs \in UNION {[1..n -> Images] : n \in 0..MaxCrops}}

\* the crop inputs of up to three crops
MomentumCropInputs == {X \in CropInputs : Len(CropList(X)) <= 3}

\* label tensors, -1 being the ignore label
TargetInputs == {<<0, 1>>, <<0, -1>>}

\* BaseMethod with every crop configuration, with and without k-NN, and with
\* fewer than five classes
BaseStepArgs ==
    {[DefaultArgs EXCEPT !.num_large_crops = l, !.num_small_crops = sm,
                         !.knn_eval = k] :
        l \in {1, 2}, sm \in {0, 1, 2}, k \in BOOLEAN}
    \cup {[DefaultArgs EXCEPT !.num_large_crops = l, !.num_classes = 3] : l \in {1, 2}}

\* BaseMomentumMethod without and with a momentum classifier, with ten and
\* with three classes
MomentumStepArgs ==
    {[DefaultArgs EXCEPT !.cls = "BaseMomentumMethod", !.momentum_classifier = mc,
                         !.num_large_crops = l, !.num_small_crops = sm,
                         !.num_classes = nc] :
        mc \in BOOLEAN, l \in {1, 2}, sm \in {0, 1}, nc \in {3, 10}}

StepArgs == BaseStepArgs \cup MomentumStepArgs

Ready(a, r) ==
    /\ args = a
    /\ self = r.self
    /\ err = r.err
    /\ pc = "constructed"
    /\ calls = [NoCalls EXCEPT !.factory = r.factory_calls]

InitStep ==
    /\ \E a \in StepArgs : Ready(a, NewMethod(a))
    /\ NoOptim /\ NoTrain /\ NoStep /\ NoVal /\ NoWeightsInit

\* self.training_step(batch, batch_idx) on a BaseMethod
TrainingStep ==
    /\ pc = "constructed"
    /\ self.cls = "BaseMethod"
    /\ \E X \in CropInputs, targets \in TargetInputs, nt \in [Images -> Responses] :
          TrainingStepOn([X |-> X, targets |-> targets], nt)
    /\ pc' = "stepped"
    /\ UNCHANGED <<initvars, args, self, mnet, optvars, trainvars, val_in, val_outs>>

\* self.training_step(batch, batch_idx) on a BaseMomentumMethod
MomentumTrainingStep ==
    /\ pc = "constructed"
    /\ self.cls = "BaseMomentumMethod"
    /\ \E X \in MomentumCropInputs, nt \in [Images -> Responses],
          mt \in (IF self.momentum_classifier # None
                  THEN [Images -> MomentumResponses] ELSE {None}) :
          MomentumTrainingStepOn([X |-> X, targets |-> <<0, 1>>], nt, mt)
    /\ pc' = "stepped"
    /\ UNCHANGED <<initvars, args, self, optvars, trainvars, val_in, val_outs>>

NextStep == TrainingStep \/ MomentumTrainingStep

SpecStep == InitStep /\ [][NextStep]_vars

\* -------------------------------------------------------------- validation

\* weighted_mean(outputs, key, batch_size_key) of solo.utils.metrics: the sum of
\* out[batch_size_key] * out[key] over the sum of out[batch_size_key]
WeightedMean(outputs, key, batch_size_key) ==
    Div(PySum([i \in 1..Len(outputs) |-> outputs[i][batch_size_key] * outputs[i][key]]),
        PySum(Column(outputs, batch_size_key)))

TargetsSize_One(targets) == 1

\* targets.size(0)
TargetsSize(targets) == Len(targets)

\* The metrics validation_step returns
ValMetrics(o, batch_size) ==
    [batch_size |-> batch_size, val_loss |-> o.loss, val_acc1 |-> o.acc1,
     val_acc5 |-> o.acc5]

\* The sizes a validation batch can have: full, and the smaller last one
ValSizes == {2, 10}

BaseValArgs == {[DefaultArgs EXCEPT !.knn_eval = k] : k \in BOOLEAN}

\* BaseMomentumMethod without and with a momentum classifier, with ten and
\* with three classes
MomentumValArgs ==
    {[DefaultArgs EXCEPT !.cls = "BaseMomentumMethod", !.momentum_classifier = mc,
                         !.num_classes = nc] :
        mc \in BOOLEAN, nc \in {3, 10}}

ValArgs == BaseValArgs \cup MomentumValArgs

InitVal ==
    /\ \E a \in ValArgs : Ready(a, NewMethod(a))
    /\ \E sc \in BOOLEAN : trainer = [sanity_checking |-> sc]
    /\ hook = None
    /\ NoOptim /\ NoStep /\ NoVal /\ NoWeightsInit

\* self.validation_step(batch, batch_idx), whose return value the trainer
\* appends to the outputs of the epoch
ValidationStep ==
    /\ pc = "constructed"
    /\ self.cls = "BaseMethod"
    /\ Len(val_outs) < MaxValBatches
    /\ \E n \in ValSizes, r \in Responses :
        /\ val_in' = Append(val_in, [size |-> n, response |-> r])
        /\ val_outs' = Append(val_outs,
              ValMetrics(BaseSharedStep([x \in Images |-> r], 1, [i \in 1..n |-> 0]),
                         TargetsSize([i \in 1..n |-> 0])))
    /\ calls' = [calls EXCEPT
                   !.forward = @ + 1,
                   !.knn = @ + (IF self.knn_eval /\ ~trainer.sanity_checking
                                THEN 1 ELSE 0)]
    /\ err' = ""
    /\ UNCHANGED <<initvars, pc, args, self, logged, optvars, trainvars, stepvars>>

\* The dict validation_epoch_end logs
ValLog(s, t, outs) ==
    [val_loss |-> WeightedMean(outs, "val_loss", "batch_size"),
     val_acc1 |-> WeightedMean(outs, "val_acc1", "batch_size"),
     val_acc5 |-> WeightedMean(outs, "val_acc5", "batch_size"),
     knn |-> s.knn_eval /\ ~t.sanity_checking]

\* self.validation_epoch_end(outs); weighted_mean divides by the summed batch
\* sizes, which are 0 when there was no batch
ValidationEpochEnd ==
    /\ pc = "constructed"
    /\ self.cls = "BaseMethod"
    /\ IF val_outs = <<>>
       THEN err' = "ZeroDivisionError" /\ UNCHANGED <<logged, calls>>
       ELSE /\ err' = ""
            /\ logged' = ValLog(self, trainer, val_outs)
            /\ calls' = [calls EXCEPT !.log = @ + 1]
    /\ pc' = "validated"
    /\ UNCHANGED <<initvars, args, self, val_in, val_outs, optvars, trainvars, stepvars>>

\* The second element of what BaseMomentumMethod.validation_step returns
MomentumValMetrics(s, o, batch_size) ==
    IF s.momentum_classifier # None
    THEN [batch_size |-> batch_size, momentum_val_loss |-> o.loss,
          momentum_val_acc1 |-> o.acc1, momentum_val_acc5 |-> o.acc5]
    ELSE None

\* What the collaborators were called with once super().validation_step ran
ValStepCalls(c, s, t) ==
    [c EXCEPT !.forward = @ + 1,
              !.knn = @ + (IF s.knn_eval /\ ~t.sanity_checking THEN 1 ELSE 0)]

\* BaseMomentumMethod.validation_step on a batch of n images, the online
\* classifier responding r and the momentum classifier mr
MomentumValidationStepOn(n, r, mr) ==
    IF self.momentum_classifier # None
       /\ AccuracyAtKRaises(self.momentum_classifier.out_features,
                            MomentumTopK(self.momentum_classifier))
    THEN /\ err' = "RuntimeError"
         /\ pc' = "raised"
         /\ UNCHANGED <<val_in, val_outs>>
    ELSE /\ err' = ""
         /\ pc' = pc
         /\ val_in' = Append(val_in, [size |-> n, response |-> r, mresponse |-> mr])
         /\ val_outs' = Append(val_outs,
               <<ValMetrics(BaseSharedStep([x \in Images |-> r], 1, [i \in 1..n |-> 0]),
                            TargetsSize([i \in 1..n |-> 0])),
                 MomentumValMetrics(
                    self,
                    SharedStepMomentum(self, [x \in Images |-> mr], 1, [i \in 1..n |-> 0]),
                    TargetsSize([i \in 1..n |-> 0]))>>)

\* self.validation_step(batch, batch_idx) on a BaseMomentumMethod
MomentumValidationStep ==
    /\ pc = "constructed"
    /\ self.cls = "BaseMomentumMethod"
    /\ Len(val_outs) < MaxValBatches
    /\ \E n \in ValSizes, r \in Responses,
          mr \in (IF self.momentum_classifier # None
                  THEN MomentumResponses ELSE {None}) :
          MomentumValidationStepOn(n, r, mr)
    /\ calls' = [ValStepCalls(calls, self, trainer) EXCEPT !.forward = @ + 1]
    /\ UNCHANGED <<initvars, args, self, logged, optvars, trainvars, stepvars>>

AggregatesMomentum_Always(s) == TRUE

\* "if self.momentum_classifier is not None:" in validation_epoch_end
AggregatesMomentum(s) == s.momentum_classifier # None

\* The dicts of both log_dict calls of BaseMomentumMethod.validation_epoch_end
MomentumValLog(parent_log, momentum_outs) ==
    [val_loss |-> parent_log.val_loss, val_acc1 |-> parent_log.val_acc1,
     val_acc5 |-> parent_log.val_acc5, knn |-> parent_log.knn,
     momentum_val_loss |->
        WeightedMean(momentum_outs, "momentum_val_loss", "batch_size"),
     momentum_val_acc1 |->
        WeightedMean(momentum_outs, "momentum_val_acc1", "batch_size"),
     momentum_val_acc5 |->
        WeightedMean(momentum_outs, "momentum_val_acc5", "batch_size")]

\* BaseMomentumMethod.validation_epoch_end on a non-empty list of pairs:
\* subscripting a second element that is None is a TypeError
MomentumEpochEndOn(s, t, outs) ==
    IF ~AggregatesMomentum(s)
    THEN /\ err' = ""
         /\ logged' = ValLog(s, t, Column(outs, 1))
         /\ calls' = [calls EXCEPT !.log = @ + 1]
    ELSE IF \E i \in 1..Len(outs) : outs[i][2] = None
    THEN /\ err' = "TypeError"
         /\ logged' = ValLog(s, t, Column(outs, 1))
         /\ calls' = [calls EXCEPT !.log = @ + 1]
    ELSE /\ err' = ""
         /\ logged' = MomentumValLog(ValLog(s, t, Column(outs, 1)), Column(outs, 2))
         /\ calls' = [calls EXCEPT !.log = @ + 2]

\* self.validation_epoch_end(outs) on a BaseMomentumMethod
MomentumValidationEpochEnd ==
    /\ pc = "constructed"
    /\ self.cls = "BaseMomentumMethod"
    /\ IF val_outs = <<>>
       THEN err' = "ZeroDivisionError" /\ UNCHANGED <<logged, calls>>
       ELSE MomentumEpochEndOn(self, trainer, val_outs)
    /\ pc' = "validated"
    /\ UNCHANGED <<initvars, args, self, val_in, val_outs, optvars, trainvars, stepvars>>

NextVal ==
    \/ ValidationStep
    \/ ValidationEpochEnd
    \/ MomentumValidationStep
    \/ MomentumValidationEpochEnd

SpecVal == InitVal /\ [][NextVal]_vars

\* ------------------------------------------------------------ weights_init

\* The classes of the modules of a tree: the standard layers, a module with
\* no reset_parameters (a container, an activation), a module with a
\* reset_parameters of its own, and BottleneckExpand
ModuleKinds ==
    {"Conv2d", "Linear", "BatchNorm2d", "Module", "CustomReset", "BottleneckExpand"}

\* init_std_modules(module): TRUE for the layers it initializes
IsStdModule(kind) == kind \in {"Conv2d", "Linear", "BatchNorm2d"}

\* hasattr(m, "reset_parameters")
HasResetParameters(kind) ==
    kind \in {"Conv2d", "Linear", "BatchNorm2d", "CustomReset", "BottleneckExpand"}

ChildBranch_NoReset(kind) == IF IsStdModule(kind) THEN "std" ELSE "recurse"

\* The branch the loop of weights_init takes for a direct child
ChildBranch(kind) ==
    IF IsStdModule(kind) THEN "std"
    ELSE IF HasResetParameters(kind) THEN "reset"
    ELSE "recurse"

\* The module trees of up to MaxModules modules: module 1 is the root, every
\* other module has an earlier module as its parent
ModuleTrees ==
    UNION {{[kind |-> k, parent |-> p] :
               k \in [1..n -> ModuleKinds],
               p \in {q \in [1..n -> 0..(n - 1)] :
                        q[1] = 0 /\ \A i \in 2..n : q[i] \in 1..(i - 1)}} :
           n \in 1..MaxModules}

\* list(module.children())
Children(t, v) ==
    LET IsChild(i) == t.parent[i] = v
    IN  SelectSeq([i \in 1..Len(t.kind) |-> i], IsChild)

\* nothing initialized, reset or entered yet
NoMarks(t) ==
    [v \in 1..Len(t.kind) |->
        [std |-> 0, reset |-> 0, entered |-> 0, self_init |-> 0, normal |-> 0]]

Frame(fn, module) == [fn |-> fn, module |-> module, at |-> 0]

\* The stack with the frame on top replaced, and with it removed
SetTop(stk, frame) == [stk EXCEPT ![Len(stk)] = frame]

Pop(stk) == SubSeq(stk, 1, Len(stk) - 1)

\* A call of weights_init(root), or of root.reset_parameters() as
\* BottleneckExpand.__init__ makes it, about to run
InitWeightsInit ==
    /\ \E t \in ModuleTrees :
        \E entry \in {"weights_init"}
                     \cup (IF t.kind[1] = "BottleneckExpand"
                           THEN {"reset_parameters"} ELSE {}) :
            /\ tree = [kind |-> t.kind, parent |-> t.parent, entry |-> entry]
            /\ stack = <<Frame(entry, 1)>>
            /\ marks = NoMarks(t)
    /\ pc = "new" /\ args = None /\ self = None /\ err = "" /\ calls = NoCalls
    /\ NoOptim /\ NoTrain /\ NoStep /\ NoVal

\* weights_init: init_std_modules(module) on the module it was given
WeightsInitStart ==
    /\ stack # <<>>
    /\ stack[Len(stack)].fn = "weights_init"
    /\ stack[Len(stack)].at = 0
    /\ marks' = IF IsStdModule(tree.kind[stack[Len(stack)].module])
                THEN [marks EXCEPT ![stack[Len(stack)].module].std = @ + 1]
                ELSE marks
    /\ stack' = SetTop(stack, [stack[Len(stack)] EXCEPT !.at = 1])
    /\ UNCHANGED <<tree, objvars, optvars, trainvars, stepvars, valvars>>

\* One round of the loop of weights_init for the direct child m
LoopOn(top, m) ==
    CASE ChildBranch(tree.kind[m]) = "std" ->
            /\ marks' = [marks EXCEPT ![m].std = @ + 1]
            /\ stack' = SetTop(stack, [top EXCEPT !.at = @ + 1])
      [] ChildBranch(tree.kind[m]) = "reset" ->
            /\ marks' = marks
            /\ stack' = Append(SetTop(stack, [top EXCEPT !.at = @ + 1]),
                               Frame("reset_parameters", m))
      [] ChildBranch(tree.kind[m]) = "recurse" ->
            /\ marks' = [marks EXCEPT ![m].entered = @ + 1]
            /\ stack' = Append(SetTop(stack, [top EXCEPT !.at = @ + 1]),
                               Frame("weights_init", m))

\* weights_init: the loop over module.children()
WeightsInitChild ==
    /\ stack # <<>>
    /\ stack[Len(stack)].fn = "weights_init"
    /\ stack[Len(stack)].at \in 1..Len(Children(tree, stack[Len(stack)].module))
    /\ LoopOn(stack[Len(stack)],
              Children(tree, stack[Len(stack)].module)[stack[Len(stack)].at])
    /\ UNCHANGED <<tree, objvars, optvars, trainvars, stepvars, valvars>>

\* weights_init returns when the loop is through
WeightsInitReturn ==
    /\ stack # <<>>
    /\ stack[Len(stack)].fn = "weights_init"
    /\ stack[Len(stack)].at > Len(Children(tree, stack[Len(stack)].module))
    /\ stack' = Pop(stack)
    /\ UNCHANGED <<tree, marks, objvars, optvars, trainvars, stepvars, valvars>>

\* m.reset_parameters(): BottleneckExpand's calls weights_init(self) and then
\* draws conv1.weight anew; any other resets the module's own parameters
ResetParameters ==
    /\ stack # <<>>
    /\ stack[Len(stack)].fn = "reset_parameters"
    /\ IF tree.kind[stack[Len(stack)].module] # "BottleneckExpand"
       THEN /\ marks' = [marks EXCEPT ![stack[Len(stack)].module].reset = @ + 1]
            /\ stack' = Pop(stack)
       ELSE IF stack[Len(stack)].at = 0
       THEN /\ marks' = [marks EXCEPT ![stack[Len(stack)].module].reset = @ + 1,
                                      ![stack[Len(stack)].module].self_init = @ + 1]
            /\ stack' = Append(SetTop(stack, [stack[Len(stack)] EXCEPT !.at = 1]),
                               Frame("weights_init", stack[Len(stack)].module))
       ELSE /\ marks' = [marks EXCEPT ![stack[Len(stack)].module].normal = @ + 1]
            /\ stack' = Pop(stack)
    /\ UNCHANGED <<tree, objvars, optvars, trainvars, stepvars, valvars>>

NextWeightsInit ==
    \/ WeightsInitStart
    \/ WeightsInitChild
    \/ WeightsInitReturn
    \/ ResetParameters

\* The interpreter keeps running the call until it returns
SpecWeightsInit ==
    InitWeightsInit /\ [][NextWeightsInit]_vars /\ WF_vars(NextWeightsInit)

\* ------------------------------------------------------------------ claims

\* The torch optimizer inside what configure_optimizers returned
TorchOptimizer(ret) ==
    LET o == IF ret.kind = "optimizer" THEN ret.optimizer ELSE ret.optimizers[1]
    IN  IF o.class = "LARSWrapper" THEN o.optim ELSE o

\* C1: in a fresh run (global_step 0 at on_train_start) the momentum update of
\* all momentum pairs and update_tau run exactly once per optimizer step, at
\* the first on_train_batch_end after the step, and not at an
\* on_train_batch_end that no optimizer step preceded.
C1_OncePerOptimizerStep ==
    (trainer.resumed_at = 0 /\ trainer.stage # "start") =>
        /\ hook.tau_calls = hook.firings
        /\ hook.updates = hook.firings * Len(MomentumPairs(self))
        /\ trainer.stage = "batch" =>
              /\ hook.firings = trainer.global_step
              /\ hook.calls > 0 => hook.fired = hook.stepped
        /\ trainer.stage = "batch_end" =>
              hook.firings = trainer.global_step - (IF hook.stepped THEN 1 ELSE 0)

C1_Witness ==
    /\ trainer.resumed_at = 0
    /\ trainer.accumulate_grad_batches = 2
    /\ trainer.num_batches = 3
    /\ trainer.batches_done = 3
    /\ trainer.stage = "batch"
    /\ trainer.global_step = 2
    /\ hook.calls = 3
    /\ hook.firings = 2

\* C2: whenever on_train_batch_end fires, update_tau gets cur_step =
\* global_step times the trainer's accumulation factor (global_step itself when
\* the factor is unset) and max_steps = batches per epoch times max epochs.
C2_UpdateTauArguments ==
    hook.firings > 0 =>
        /\ hook.cur_step = IF trainer.accumulate_grad_batches # 0
                           THEN self.last_step * trainer.accumulate_grad_batches
                           ELSE self.last_step
        /\ hook.max_steps = trainer.num_batches * trainer.max_epochs

C2_Witness ==
    /\ hook.firings > 0
    /\ trainer.accumulate_grad_batches = 2
    /\ trainer.num_batches = 3
    /\ trainer.max_epochs = 2
    /\ self.last_step = 2
    /\ hook.cur_step = 4
    /\ hook.max_steps = 6

C3_Precondition ==
    /\ hook.tau_calls > 0
    /\ self.momentum_updater.base_tau <= self.momentum_updater.final_tau
    /\ hook.max_steps > 0

C3_Endpoints ==
    C3_Precondition =>
        /\ hook.cur_step = 0 =>
              self.momentum_updater.cur_tau = self.momentum_updater.base_tau
        /\ hook.cur_step = hook.max_steps =>
              self.momentum_updater.cur_tau = self.momentum_updater.final_tau

C3_Monotone ==
    (C3_Precondition /\ hook'.cur_step >= hook.cur_step)
        => self'.momentum_updater.cur_tau >= self.momentum_updater.cur_tau

\* C3: for base_tau <= final_tau and max_steps > 0 the tau update_tau produces
\* is base_tau at cur_step 0, final_tau at cur_step max_steps, and does not
\* decrease when cur_step grows within [0, max_steps].
C3_TauSchedule == []C3_Endpoints /\ [][C3_Monotone]_vars

C3_Witness ==
    /\ hook.tau_calls > 0
    /\ self.momentum_updater.base_tau = 990
    /\ self.momentum_updater.final_tau = 1000
    /\ hook.max_steps = 2
    /\ hook.cur_step = 1
    /\ self.momentum_updater.cur_tau = 995

\* C4: training_step raises an assertion error for every batch whose crop list
\* (a single tensor counting as a list of one) is not num_crops long, and does so
\* before any forward pass, logging or k-NN accumulation.
C4_WrongCropCountRaises ==
    (pc = "stepped" /\ Len(CropList(batch.X)) # args.num_large_crops + args.num_small_crops)
        => /\ err = "AssertionError"
           /\ calls.forward = 0
           /\ calls.log = 0
           /\ calls.knn = 0
           /\ out = None
           /\ logged = None
           /\ knn_buf = {}

C4_Witness ==
    /\ pc = "stepped"
    /\ args.num_large_crops = 2
    /\ args.num_small_crops = 2
    /\ batch.X.class = "list"
    /\ Len(batch.X.items) = 3
    /\ err = "AssertionError"

\* The sum of f(net[x]) over the first n crops of the batch
C5_SumOverFirst(n, f(_)) ==
    PySum([i \in 1..n |-> f(net[CropList(batch.X)[i]])])

C5_Loss(r) == r.loss
C5_Acc1(r) == r.acc1
C5_Acc5(r) == r.acc5

\* C5: the loss, acc1 and acc5 BaseMethod.training_step returns are the sums of
\* the per-crop values over the first num_large_crops crops divided by
\* num_large_crops; with two large crops, no small crop and twice the same
\* crop, the loss is that crop's loss.
C5_MeanOverLargeCrops ==
    (pc = "stepped" /\ err = "" /\ args.cls = "BaseMethod") =>
        /\ out.loss = Div(C5_SumOverFirst(args.num_large_crops, C5_Loss),
                          args.num_large_crops)
        /\ out.acc1 = Div(C5_SumOverFirst(args.num_large_crops, C5_Acc1),
                          args.num_large_crops)
        /\ out.acc5 = Div(C5_SumOverFirst(args.num_large_crops, C5_Acc5),
                          args.num_large_crops)
        /\ (args.num_large_crops = 2 /\ args.num_small_crops = 0
              /\ CropList(batch.X)[1] = CropList(batch.X)[2])
            => out.loss.num = net[CropList(batch.X)[1]].loss * out.loss.den

C5_Witness ==
    /\ pc = "stepped"
    /\ err = ""
    /\ args.num_large_crops = 2
    /\ args.num_small_crops = 0
    /\ batch.X.class = "list"
    /\ batch.X.items = <<1, 1>>
    /\ net[1].loss = 5
    /\ net[2].loss = 1
    /\ out.loss = Div(10, 2)

\* C6: validation_epoch_end logs val_loss, val_acc1 and val_acc5 as the sum of
\* value times batch size over the sum of the batch sizes of all validation
\* batches of the epoch.
C6_WeightedValidationMean ==
    (pc = "validated" /\ err = "") =>
        /\ logged.val_loss =
              Div(PySum([i \in 1..Len(val_in) |->
                            val_in[i].response.loss * val_in[i].size]),
                  PySum([i \in 1..Len(val_in) |-> val_in[i].size]))
        /\ logged.val_acc1 =
              Div(PySum([i \in 1..Len(val_in) |->
                            val_in[i].response.acc1 * val_in[i].size]),
                  PySum([i \in 1..Len(val_in) |-> val_in[i].size]))
        /\ logged.val_acc5 =
              Div(PySum([i \in 1..Len(val_in) |->
                            val_in[i].response.acc5 * val_in[i].size]),
                  PySum([i \in 1..Len(val_in) |-> val_in[i].size]))

\* sizes [10, 10, 2] with losses [1, 2, 5] give 40/22, which is not 8/3
C6_Witness ==
    /\ pc = "validated"
    /\ Len(val_in) = 3
    /\ [i \in 1..3 |-> val_in[i].size] = <<10, 10, 2>>
    /\ [i \in 1..3 |-> val_in[i].response.loss] = <<1, 2, 5>>
    /\ logged.val_loss = Div(40, 22)
    /\ logged.val_loss.num * 3 # 8 * logged.val_loss.den

\* C7: constructing with a backbone name that is no key of the registry raises
\* at construction, before any factory is called and before any forward pass,
\* and no other architecture is built in its place.
C7_UnregisteredBackboneRaises ==
    (pc # "new" /\ args.backbone \notin SUPPORTED_BACKBONES)
        => /\ pc = "failed"
           /\ err = "AssertionError"
           /\ calls.factory = 0
           /\ calls.forward = 0
           /\ self.backbone = None

C7_Witness ==
    /\ pc = "failed"
    /\ args.backbone = "alexnet"
    /\ err = "AssertionError"

\* C8: for every registered architecture name construction produces an actual
\* feature-extractor module and sets features_dim: out_size for the 'large'
\* residual variants, inplanes for the other residual families, num_features
\* for all other families.
C8_RegisteredBackboneBuilds ==
    (pc # "new" /\ args.backbone \in SUPPORTED_BACKBONES)
        => /\ pc = "constructed"
           /\ self.backbone # None
           /\ self.features_dim =
                IF args.backbone \in {"resnetlarge1", "resnetlarge2"}
                THEN args.out_size
                ELSE IF args.backbone \in ResNetNames
                THEN self.backbone.inplanes
                ELSE self.backbone.num_features

\* C9: lr, classifier_lr, min_lr and warmup_start_lr are the passed values
\* times accumulate_grad_batches when that is set and the passed values when it
\* is not, from construction on: every optimizer is created with the scaled
\* rates and no call of configure_optimizers changes them.
C9_LrScaledOnce ==
    pc = "constructed" =>
        LET n == IF args.accumulate_grad_batches # 0
                 THEN args.accumulate_grad_batches ELSE 1
        IN  /\ self.lr = args.lr * n
            /\ self.classifier_lr = args.classifier_lr * n
            /\ self.min_lr = args.min_lr * n
            /\ self.warmup_start_lr = args.warmup_start_lr * n
            /\ (co_calls > 0 /\ co_ret.kind # "raise") =>
                  /\ TorchOptimizer(co_ret).param_groups[1].lr = args.lr * n
                  /\ TorchOptimizer(co_ret).param_groups[2].lr = args.classifier_lr * n

C9_Witness ==
    /\ pc = "constructed"
    /\ args.lr = 100
    /\ args.accumulate_grad_batches = 4
    /\ self.lr = 400
    /\ co_calls = 2
    /\ co_ret.kind = "lists"

\* C10 as claimed: with scheduler "none" configure_optimizers returns the
\* optimizer alone for every supported optimizer, with LARS on or off, with or
\* without a static_lr group.
C10_NoneReturnsOptimizer_AsClaimed ==
    (co_calls > 0 /\ self.scheduler = "none"
        /\ self.optimizer \in {"sgd", "adam", "adamw"})
        => co_ret.kind = "optimizer"

\* C10 as amended: with scheduler "none" configure_optimizers returns the
\* optimizer alone, with no schedule beside it, for every supported optimizer
\* without LARS and for sgd with LARS (then the LARS wrapper around it), with
\* or without a static_lr group; LARS with adam or adamw raises instead.
C10_NoneReturnsOptimizer ==
    (co_calls > 0 /\ self.scheduler = "none"
        /\ self.optimizer \in {"sgd", "adam", "adamw"})
        => IF self.lars /\ self.optimizer # "sgd"
           THEN co_ret.kind = "raise" /\ err = "AssertionError"
           ELSE /\ co_ret.kind = "optimizer"
                /\ DOMAIN co_ret = {"kind", "optimizer"}
                /\ co_ret.optimizer.class = IF self.lars THEN "LARSWrapper"
                                            ELSE TorchOptimizer(co_ret).class
                /\ TorchOptimizer(co_ret).class \in {"SGD", "Adam", "AdamW"}

C10_Witness ==
    /\ co_calls > 0
    /\ self.scheduler = "none"
    /\ self.optimizer = "sgd"
    /\ self.lars
    /\ self.extra_head = "static"
    /\ co_ret.kind = "optimizer"
    /\ co_ret.optimizer.class = "LARSWrapper"

\* C11: configure_optimizers with scheduler "step" and lr_decay_steps left at
\* None ends in an error and returns no optimizer/scheduler pair.
C11_StepWithoutMilestonesRaises ==
    (co_calls > 0 /\ self.scheduler = "step" /\ self.lr_decay_steps = None)
        => co_ret.kind = "raise"

\* C12: with lars enabled and an optimizer other than sgd configure_optimizers
\* fails for every scheduler name, "none" included; for adam and adamw it is the
\* LARS assertion that fails, with the optimizer built but neither a LARS
\* wrapper nor a scheduler, and nothing returned.
C12_LarsNeedsSgd ==
    (co_calls > 0 /\ self.lars /\ self.optimizer # "sgd")
        => /\ co_ret.kind = "raise"
           /\ err # ""
           /\ get_lr = None
           /\ self.optimizer \in {"adam", "adamw"}
                => /\ co_ret.err = "AssertionError"
                   /\ co_ret.built = <<OptimizerClass(self.optimizer)>>

C12_Witness ==
    /\ co_calls > 0
    /\ self.lars
    /\ self.optimizer = "adam"
    /\ self.scheduler = "none"
    /\ co_ret.kind = "raise"
    /\ err = "AssertionError"

\* C13: an optimizer name outside sgd, adam, adamw does not make the
\* constructor fail; configure_optimizers raises ValueError for it with no
\* optimizer, wrapper or scheduler built.
C13_UnknownOptimizerRaisesLate ==
    (pc # "new" /\ args.optimizer \notin {"sgd", "adam", "adamw"})
        => /\ pc = "constructed"
           /\ self.optimizer = args.optimizer
           /\ co_calls = 0 => err = ""
           /\ co_calls > 0
                => /\ co_ret = [kind |-> "raise", err |-> "ValueError", built |-> <<>>]
                   /\ err = "ValueError"
                   /\ get_lr = None

C13_Witness ==
    /\ pc = "constructed"
    /\ self.optimizer = "rmsprop"
    /\ co_calls > 0
    /\ co_ret.kind = "raise"
    /\ err = "ValueError"

\* C14: for every scheduler name outside none, warmup_cosine, cosine, step,
\* among them "reduce" and "exponential" which the argument parser accepts,
\* configure_optimizers raises and returns no scheduler; with a supported
\* optimizer and no LARS conflict the error is the scheduler's ValueError.
C14_UnknownSchedulerRaises ==
    /\ {"reduce", "exponential"} \subseteq SchedulerNames
    /\ (co_calls > 0 /\ self.scheduler \notin {"none", "warmup_cosine", "cosine", "step"})
        => /\ co_ret.kind = "raise"
           /\ get_lr = None
           /\ (OptimizerClass(self.optimizer) # ""
                 /\ (self.lars => self.optimizer = "sgd"))
                => /\ co_ret.err = "ValueError"
                   /\ err = "ValueError"

C14_Witness ==
    /\ co_calls > 0
    /\ self.scheduler = "reduce"
    /\ self.optimizer = "sgd"
    /\ ~self.lars
    /\ co_ret.kind = "raise"
    /\ co_ret.err = "ValueError"
    /\ co_ret.built = <<"SGD">>

\* C15: every scheduler.get_lr() call returns, at the index of each group
\* marked static_lr, the rate the group was given when the optimizer was built,
\* and at every other index the rate the scheduler computed.
C15_StaticGroupsKeepOwnRate ==
    (co_calls > 0 /\ get_lr # None)
        => \A i \in 1..Len(get_lr.lrs) :
              get_lr.lrs[i] =
                 IF ParamGroups(co_ret.optimizers[1])[i].static_lr
                 THEN ParamGroups(co_ret.optimizers[1])[i].lr
                 ELSE get_lr.computed[i]

\* C16: with fewer than five classes a training step on a batch of the
\* configured number of crops raises nothing, for BaseMethod and for
\* BaseMomentumMethod with or without a momentum classifier.
C16_FewClassesRaiseNothing ==
    (pc = "stepped" /\ args.num_classes < 5
        /\ Len(CropList(batch.X)) = args.num_large_crops + args.num_small_crops)
        => err = ""

\* C17: the loss BaseMomentumMethod.training_step returns is the mean online
\* loss over the large crops plus the mean momentum classifier loss over the
\* same crops when a momentum classifier exists; without one it is the loss of
\* the base training_step and the output has the momentum features but no
\* momentum logits, loss or accuracies.
C17_MomentumLossAdded ==
    (pc = "stepped" /\ err = "" /\ args.cls = "BaseMomentumMethod") =>
        IF args.momentum_classifier
        THEN /\ out.loss.num * args.num_large_crops =
                  (C5_SumOverFirst(args.num_large_crops, C5_Loss)
                     + PySum([i \in 1..args.num_large_crops |->
                                 mnet[CropList(batch.X)[i]].loss]))
                  * out.loss.den
             /\ out.momentum_loss =
                  Div(PySum([i \in 1..args.num_large_crops |->
                                mnet[CropList(batch.X)[i]].loss]),
                      args.num_large_crops)
        ELSE /\ out.loss = Div(C5_SumOverFirst(args.num_large_crops, C5_Loss),
                               args.num_large_crops)
             /\ DOMAIN out = {"logits", "feats", "loss", "acc1", "acc5", "momentum_feats"}
             /\ out.momentum_feats =
                  [i \in 1..args.num_large_crops |->
                      MomentumBackbone(CropList(batch.X)[i])]

C17_Witness ==
    /\ pc = "stepped"
    /\ err = ""
    /\ args.cls = "BaseMomentumMethod"
    /\ args.momentum_classifier
    /\ args.num_large_crops = 2
    /\ batch.X.class = "list"
    /\ batch.X.items = <<1, 2>>
    /\ net[1].loss = 1
    /\ net[2].loss = 2
    /\ out.momentum_loss = Div(7, 2)
    /\ out.loss.num * 2 = 10 * out.loss.den

\* C18: the groups of learnable_params, and so of the optimizer built from
\* them, start with the backbone group and the classifier group (classifier_lr,
\* weight decay 0); BaseMomentumMethod has exactly one momentum_classifier
\* group, right after them, iff a momentum classifier was configured; no group
\* holds the momentum backbone's parameters.
C18_ParameterGroups ==
    (pc = "constructed") =>
       /\ LearnableParams(self)[1].name = "backbone"
       /\ LearnableParams(self)[1].params = "self.backbone"
       /\ LearnableParams(self)[2] =
             [name |-> "classifier", params |-> "self.classifier",
              keys |-> {"lr", "weight_decay"}, lr |-> self.classifier_lr,
              weight_decay |-> 0]
       /\ {i \in 1..Len(LearnableParams(self)) :
              LearnableParams(self)[i].name = "momentum_classifier"}
            = IF args.cls = "BaseMomentumMethod" /\ args.momentum_classifier
              THEN {3} ELSE {}
       /\ \A i \in 1..Len(LearnableParams(self)) :
              LearnableParams(self)[i].params # "self.momentum_backbone"
       /\ (co_calls > 0 /\ co_ret.kind # "raise") =>
             /\ Len(ParamGroups(TorchOptimizer(co_ret))) = Len(LearnableParams(self))
             /\ \A i \in 1..Len(LearnableParams(self)) :
                   /\ ParamGroups(TorchOptimizer(co_ret))[i].name
                         = LearnableParams(self)[i].name
                   /\ ParamGroups(TorchOptimizer(co_ret))[i].params
                         = LearnableParams(self)[i].params
             /\ ParamGroups(TorchOptimizer(co_ret))[2].lr = self.classifier_lr
             /\ ParamGroups(TorchOptimizer(co_ret))[2].weight_decay = 0

C18_Witness ==
    /\ pc = "constructed"
    /\ args.cls = "BaseMomentumMethod"
    /\ args.momentum_classifier
    /\ self.momentum_backbone # None
    /\ co_calls > 0
    /\ co_ret.kind = "lists"
    /\ Len(ParamGroups(TorchOptimizer(co_ret))) = 4
    /\ ParamGroups(TorchOptimizer(co_ret))[3].params = "self.momentum_classifier"

\* C19: BaseMethod.training_step returns one logits entry per large crop and
\* one feature entry per large crop followed, when small crops are configured,
\* by one per small crop in order; the small crops are forwarded through the
\* backbone only and add nothing to loss, acc1, acc5 or the k-NN accumulator.
C19_SmallCropsGiveFeaturesOnly ==
    (pc = "stepped" /\ err = "" /\ args.cls = "BaseMethod") =>
        /\ Len(out.logits) = args.num_large_crops
        /\ Len(out.feats) = IF args.num_small_crops = 0
                            THEN args.num_large_crops
                            ELSE args.num_large_crops + args.num_small_crops
        /\ \A i \in 1..Len(out.feats) : out.feats[i] = Backbone(CropList(batch.X)[i])
        /\ \A i \in 1..args.num_large_crops : out.logits[i].of = out.feats[i]
        /\ calls.forward = args.num_large_crops + args.num_small_crops
        /\ out.loss.num = C5_SumOverFirst(args.num_large_crops, C5_Loss)
        /\ out.acc1.num = C5_SumOverFirst(args.num_large_crops, C5_Acc1)
        /\ out.acc5.num = C5_SumOverFirst(args.num_large_crops, C5_Acc5)
        /\ knn_buf =
              IF args.knn_eval
              THEN {[feats |-> Backbone(CropList(batch.X)[i]), row |-> j,
                     target |-> batch.targets[j]] :
                       i \in 1..args.num_large_crops,
                       j \in {k \in 1..Len(batch.targets) : batch.targets[k] # -1}}
              ELSE {}

C19_Witness ==
    /\ pc = "stepped"
    /\ err = ""
    /\ args.cls = "BaseMethod"
    /\ args.num_large_crops = 2
    /\ args.num_small_crops = 2
    /\ args.knn_eval
    /\ batch.X.items = <<1, 2, 2, 1>>
    /\ batch.targets = <<0, -1>>
    /\ Len(out.feats) = 4
    /\ Len(out.logits) = 2
    /\ Cardinality(knn_buf) = 2

\* C20: every BaseMomentumMethod.validation_step that returns gives a pair
\* of the online metrics and the momentum metrics, the second being None iff
\* there is no momentum classifier; validation_epoch_end logs the
\* batch-size-weighted means of the first elements, and logs the
\* batch-size-weighted means of the momentum metrics iff there is a momentum
\* classifier, without failing on a None second element.
C20_PairedValidation ==
    (pc # "new" /\ args.cls = "BaseMomentumMethod") =>
        /\ \A i \in 1..Len(val_outs) :
              /\ Len(val_outs[i]) = 2
              /\ val_outs[i][1] =
                    [batch_size |-> val_in[i].size,
                     val_loss |-> val_in[i].response.loss,
                     val_acc1 |-> val_in[i].response.acc1,
                     val_acc5 |-> val_in[i].response.acc5]
              /\ (val_outs[i][2] = None) <=> ~args.momentum_classifier
              /\ args.momentum_classifier =>
                    val_outs[i][2] =
                       [batch_size |-> val_in[i].size,
                        momentum_val_loss |-> val_in[i].mresponse.loss,
                        momentum_val_acc1 |-> val_in[i].mresponse.acc1,
                        momentum_val_acc5 |-> val_in[i].mresponse.acc5]
        /\ (pc = "validated" /\ val_in # <<>>) =>
              /\ err = ""
              /\ logged.val_loss =
                    Div(PySum([i \in 1..Len(val_in) |->
                                  val_in[i].size * val_in[i].response.loss]),
                        PySum([i \in 1..Len(val_in) |-> val_in[i].size]))
              /\ calls.log = IF args.momentum_classifier THEN 2 ELSE 1
              /\ ("momentum_val_loss" \in DOMAIN logged) <=> args.momentum_classifier
              /\ args.momentum_classifier =>
                    /\ logged.momentum_val_loss =
                          Div(PySum([i \in 1..Len(val_in) |->
                                        val_in[i].size * val_in[i].mresponse.loss]),
                              PySum([i \in 1..Len(val_in) |-> val_in[i].size]))
                    /\ logged.momentum_val_acc1 =
                          Div(PySum([i \in 1..Len(val_in) |->
                                        val_in[i].size * val_in[i].mresponse.acc1]),
                              PySum([i \in 1..Len(val_in) |-> val_in[i].size]))
                    /\ logged.momentum_val_acc5 =
                          Div(PySum([i \in 1..Len(val_in) |->
                                        val_in[i].size * val_in[i].mresponse.acc5]),
                              PySum([i \in 1..Len(val_in) |-> val_in[i].size]))

C20_Witness ==
    /\ pc = "validated"
    /\ args.cls = "BaseMomentumMethod"
    /\ args.momentum_classifier
    /\ Len(val_in) = 2
    /\ val_in[1].size = 10
    /\ val_in[2].size = 2
    /\ val_in[1].mresponse.loss = 3
    /\ val_in[2].mresponse.loss = 4
    /\ logged.momentum_val_loss = Div(38, 12)

RECURSIVE C21_Entered(_)
\* weights_init runs on module v: on the root, and on every module without a
\* reset_parameters, or BottleneckExpand through its own reset_parameters,
\* whose parent weights_init runs on
C21_Entered(v) ==
    \/ v = 1
    \/ /\ tree.kind[v] \in {"Module", "BottleneckExpand"}
       /\ C21_Entered(tree.parent[v])

\* What has happened to a direct child v of a module weights_init ran on,
\* when the call has returned
C21_ChildMarks(v) ==
    CASE tree.kind[v] \in {"Conv2d", "Linear", "BatchNorm2d"} ->
            [std |-> 1, reset |-> 0, entered |-> 0, self_init |-> 0, normal |-> 0]
      [] tree.kind[v] = "CustomReset" ->
            [std |-> 0, reset |-> 1, entered |-> 0, self_init |-> 0, normal |-> 0]
      [] tree.kind[v] = "BottleneckExpand" ->
            [std |-> 0, reset |-> 1, entered |-> 0, self_init |-> 1, normal |-> 1]
      [] tree.kind[v] = "Module" ->
            [std |-> 0, reset |-> 0, entered |-> 1, self_init |-> 0, normal |-> 0]

\* While the call runs nothing is reset or entered twice and the stack stays
\* within the tree; once it has returned every direct child of a module
\* weights_init ran on was treated by its class, and no other module touched
C21_Treatment ==
    (tree # None) =>
        /\ Len(stack) <= 2 * Len(tree.kind)
        /\ \A v \in 1..Len(tree.kind) :
              /\ marks[v].reset <= 1
              /\ marks[v].std <= 1
              /\ marks[v].entered + marks[v].self_init <= 1
        /\ (stack = <<>>) =>
              \A v \in 2..Len(tree.kind) :
                 marks[v] = IF C21_Entered(tree.parent[v])
                            THEN C21_ChildMarks(v)
                            ELSE [std |-> 0, reset |-> 0, entered |-> 0,
                                  self_init |-> 0, normal |-> 0]

\* C21: on every finite module tree weights_init, and
\* BottleneckExpand.reset_parameters which calls it, return; a standard-layer
\* child is initialized by the standard rule, any other child with a
\* reset_parameters has it called exactly once and is not entered by the loop
\* of weights_init, any other child is recursed into.
C21_WeightsInitTerminates == []C21_Treatment /\ <>(stack = <<>>)

C21_Witness ==
    /\ tree # None
    /\ stack = <<>>
    /\ tree.kind = <<"Module", "BottleneckExpand", "CustomReset">>
    /\ tree.parent = <<0, 1, 2>>
    /\ marks[2].reset = 1
    /\ marks[2].normal = 1
    /\ marks[3].reset = 1
    /\ marks[3].entered = 0

\* C22: in a whole run of max_epochs epochs of B batches with accumulation
\* factor A, every cur_step that on_train_batch_end passes to update_tau is at
\* most max_steps = B * max_epochs.
C22_CurStepWithinMaxSteps ==
    (trainer.resumed_at = 0 /\ hook.firings > 0) =>
        /\ hook.max_steps = trainer.num_batches * trainer.max_epochs
        /\ hook.cur_step <= hook.max_steps

\* A firing of on_train_batch_end
C23_Fires == hook'.firings = hook.firings + 1

\* C23: every firing of on_train_batch_end updates all momentum pairs with the
\* tau the previous firing left (base_tau at the first firing; nothing else
\* changes it), logs that same value as "tau" and only then runs update_tau,
\* and never passes update_tau a cur_step of 0.
C23_TauOfPreviousFiring ==
    /\ []((hook.firings = 0 /\ trainer.stage \in {"start", "batch", "batch_end"})
            => self.momentum_updater.cur_tau = self.momentum_updater.base_tau)
    /\ [][C23_Fires =>
            /\ Len(hook'.ema_taus) = Len(MomentumPairs(self))
            /\ \A i \in 1..Len(hook'.ema_taus) :
                  hook'.ema_taus[i] = self.momentum_updater.cur_tau
            /\ hook'.logged_tau = self.momentum_updater.cur_tau
            /\ hook'.tau_calls = hook.tau_calls + 1
            /\ hook'.cur_step > 0
            /\ self'.momentum_updater.cur_tau =
                  UpdateTau(self.momentum_updater, hook'.cur_step, hook'.max_steps)]_vars
    /\ [][(trainer.stage \in {"start", "batch", "batch_end"} /\ ~C23_Fires) =>
            /\ self'.momentum_updater.cur_tau = self.momentum_updater.cur_tau
            /\ hook'.tau_calls = hook.tau_calls]_vars

C23_Witness ==
    /\ hook.firings = 2
    /\ trainer.accumulate_grad_batches = 0
    /\ trainer.num_batches = 3
    /\ trainer.max_epochs = 2
    /\ hook.cur_step = 2
    /\ hook.logged_tau = UpdateTau(self.momentum_updater, 1, 6)
    /\ hook.logged_tau # self.momentum_updater.base_tau
    /\ hook.ema_taus = <<hook.logged_tau, hook.logged_tau>>

\* C24: whatever global_step training starts from, after on_train_start the
\* momentum update and update_tau run at an on_train_batch_end only if an
\* optimizer step was made since on_train_start or since the previous
\* on_train_batch_end.
C24_FiresOnlyAfterStep ==
    (trainer.stage = "batch" /\ hook.calls > 0 /\ hook.fired) => hook.stepped

====
